---- MODULE Spec2Model ----
(***************************************************************************)
(* The payout converter: the session state of the App component, its       *)
(* handlers (addFiles, handleGenerateJson, handleReset, handleDownloadJson)*)
(* and the continuation of handleGenerateJson that runs when the call to   *)
(* generatePayoutsFromJson settles.  A handler runs to completion on the   *)
(* single UI thread, so each is one action; the only suspension point is   *)
(* the await of the gateway call, which splits handleGenerateJson in two.  *)
(***************************************************************************)
EXTENDS Integers, Sequences, FiniteSets, Bags, TLC

\* Bounds of the exploration.
MaxIds == 2       \* File objects (and their object URLs) created over a run
MaxPending == 2   \* gateway calls in flight
MaxLen == 2       \* entries in one gateway response

\* JSON null in the prize field: JSON.parse's result is cast to PayoutEntry[],
\* not validated.
NoPrize == -1

\* The entries a gateway response is drawn from.  A prize is a number of
\* thousandths (100500 is 100.5); none has a thousandths digit of 5, where
\* toFixed's result depends on the binary expansion of the double.
GatewayEntries ==
  { [position |-> 1,  prize |-> 100500],
    [position |-> 2,  prize |-> 50000],
    [position |-> 10, prize |-> 1234567],
    [position |-> 2,  prize |-> NoPrize] }

VARIABLES
  imageFiles,   \* useState<File[]>: the batch, a sequence of File identities
  imageUrls,    \* useState<string[]>: the preview object URLs
  payouts,      \* useState<PayoutEntry[] | null>
  hrcJson,      \* useState<string | null>: the export document
  isLoading,    \* useState<boolean>
  error,        \* useState<string | null>
  pending,      \* calls of generatePayoutsFromJson not yet settled: a bag of
                \* the imageFiles each call was given (they settle in any order)
  liveUrls,     \* object URLs created by URL.createObjectURL, not revoked
  nextId,       \* identity of the next File object
  extracted,    \* history: extractedPayouts as received (before the sort)
                \* by the run that set the held payouts
  resultFiles,  \* history: the imageFiles that run was started with
  lastEvent     \* history: the handler that ran last

vars == <<imageFiles, imageUrls, payouts, hrcJson, isLoading, error, pending,
          liveUrls, nextId, extracted, resultFiles, lastEvent>>

\* T | null: null is the empty sequence, a value v is <<v>>.
Null == <<>>
Some(v) == <<v>>

NoImagesMessage == "Please upload at least one image first."
GatewayFailureMessage == "Failed to process the image with Gemini API. Please check the console for details."
ToFixedTypeError == "Cannot read properties of null (reading 'toFixed')"

Range(s) == {s[i] : i \in DOMAIN s}

Responses == UNION {[1..n -> GatewayEntries] : n \in 0..MaxLen}

----------------------------------------------------------------------------
\* extractedPayouts.sort((a, b) => a.position - b.position): a stable sort.

\* The comparator with its operands exchanged.
compareSwapped(a, b) == b.position - a.position

compare(a, b) == a.position - b.position

RECURSIVE insert(_, _)
insert(e, s) ==
  IF s = <<>> THEN <<e>>
  ELSE IF compare(e, Head(s)) < 0 THEN <<e>> \o s
  ELSE <<Head(s)>> \o insert(e, Tail(s))

RECURSIVE sort(_)
sort(s) ==
  IF s = <<>> THEN <<>>
  ELSE insert(s[Len(s)], sort(SubSeq(s, 1, Len(s) - 1)))

----------------------------------------------------------------------------
\* String(p.position) and p.prize.toFixed(2): strings are sequences of
\* one-character strings.

DigitChar(d) == <<"0", "1", "2", "3", "4", "5", "6", "7", "8", "9">>[d + 1]

RECURSIVE String(_)
String(n) ==
  IF n < 10 THEN <<DigitChar(n)>>
  ELSE String(n \div 10) \o <<DigitChar(n % 10)>>

\* toFixed(1) in place of toFixed(2).
toFixed1(m) ==
  LET tenths == (m + 50) \div 100
  IN  String(tenths \div 10) \o <<".">> \o <<DigitChar(tenths % 10)>>

toFixed2(m) ==
  LET cents == (m + 5) \div 10
  IN  String(cents \div 100) \o <<".">>
        \o <<DigitChar((cents \div 10) % 10), DigitChar(cents % 10)>>

tournamentEntry(list) ==
  [i \in 1..Len(list) |->
     [k \in {"@position", "@prize"} |->
        IF k = "@position" THEN String(list[i].position)
        ELSE toFixed2(list[i].prize)]]

\* The document whose 2-space stringification is held in hrcJson.
hrcJsonData(list) ==
  [CompletedTournament |->
     [k \in {"@name", "@stake", "@rake", "@currency", "TournamentEntry"} |->
        CASE k = "@name" -> "Custom Tournament Payouts"
          [] k = "@stake" -> "0"
          [] k = "@rake" -> "0"
          [] k = "@currency" -> "USD"
          [] k = "TournamentEntry" -> tournamentEntry(list)]]

\* p.prize.toFixed throws a TypeError on a prize that is not a number.
mapThrows(list) == \E i \in 1..Len(list) : list[i].prize = NoPrize

----------------------------------------------------------------------------
Init ==
  /\ imageFiles = <<>>
  /\ imageUrls = <<>>
  /\ payouts = Null
  /\ hrcJson = Null
  /\ isLoading = FALSE
  /\ error = Null
  /\ pending = EmptyBag
  /\ liveUrls = {}
  /\ nextId = 1
  /\ extracted = Null
  /\ resultFiles = Null
  /\ lastEvent = "init"

\* addFiles with n new File objects; one object URL is created per file.
addFiles(n) ==
  /\ nextId + n - 1 <= MaxIds
  /\ LET filesArray == [i \in 1..n |-> nextId + i - 1]
         newImageUrls == [i \in 1..n |-> nextId + i - 1]
     IN  /\ liveUrls' = liveUrls \cup Range(newImageUrls)
         /\ imageFiles' = imageFiles \o filesArray
         /\ imageUrls' = imageUrls \o newImageUrls
  /\ nextId' = nextId + n
  /\ payouts' = Null
  /\ hrcJson' = Null
  /\ error' = Null
  /\ extracted' = Null
  /\ resultFiles' = Null
  /\ lastEvent' = "addFiles"
  /\ UNCHANGED <<isLoading, pending>>

\* The file picker's change event: at least one file was chosen.
handleFileChange == \E n \in 1..MaxIds : addFiles(n)

\* A drop on the drop zone: dataTransfer.files may be empty.
onDrop == \E n \in 0..MaxIds : addFiles(n)

\* A paste: the first image item of the clipboard.
handlePaste == addFiles(1)

\* handleGenerateJson without its check of the batch.
handleGenerateJsonUnchecked ==
  /\ BagCardinality(pending) < MaxPending
  /\ isLoading' = TRUE
  /\ error' = Null
  /\ payouts' = Null
  /\ hrcJson' = Null
  /\ pending' = pending (+) SetToBag({imageFiles})
  /\ extracted' = Null
  /\ resultFiles' = Null
  /\ lastEvent' = "generate"
  /\ UNCHANGED <<imageFiles, imageUrls, liveUrls, nextId>>

\* handleGenerateJson up to its await.
handleGenerateJson ==
  IF Len(imageFiles) = 0
  THEN /\ error' = Some(NoImagesMessage)
       /\ lastEvent' = "generate"
       /\ UNCHANGED <<imageFiles, imageUrls, payouts, hrcJson, isLoading,
                      pending, liveUrls, nextId, extracted, resultFiles>>
  ELSE /\ BagCardinality(pending) < MaxPending
       /\ isLoading' = TRUE
       /\ error' = Null
       /\ payouts' = Null
       /\ hrcJson' = Null
       /\ pending' = pending (+) SetToBag({imageFiles})
       /\ extracted' = Null
       /\ resultFiles' = Null
       /\ lastEvent' = "generate"
       /\ UNCHANGED <<imageFiles, imageUrls, liveUrls, nextId>>

\* An outstanding call, given `files`, returns `response`: the rest of the try
\* block, the catch of a throw inside it, and the finally.
gatewayResolves(files, response) ==
  /\ LET extractedPayouts == sort(response)
     IN  /\ payouts' = Some(extractedPayouts)
         /\ IF mapThrows(extractedPayouts)
            THEN /\ error' = Some(ToFixedTypeError)
                 /\ hrcJson' = hrcJson
            ELSE /\ hrcJson' = Some(hrcJsonData(extractedPayouts))
                 /\ error' = error
  /\ isLoading' = FALSE
  /\ pending' = pending (-) SetToBag({files})
  /\ extracted' = Some(response)
  /\ resultFiles' = Some(files)
  /\ lastEvent' = "resolve"
  /\ UNCHANGED <<imageFiles, imageUrls, liveUrls, nextId>>

\* An outstanding call, given `files`, throws: the catch and the finally.
gatewayRejects(files) ==
  /\ error' = Some(GatewayFailureMessage)
  /\ isLoading' = FALSE
  /\ pending' = pending (-) SetToBag({files})
  /\ lastEvent' = "reject"
  /\ UNCHANGED <<imageFiles, imageUrls, payouts, hrcJson, liveUrls, nextId,
                 extracted, resultFiles>>

GatewaySuccess ==
  \E files \in BagToSet(pending) : \E r \in Responses : gatewayResolves(files, r)
GatewayFailure == \E files \in BagToSet(pending) : gatewayRejects(files)

\* handleReset also dropping the calls in flight.
handleResetCancelling ==
  /\ liveUrls' = liveUrls \ Range(imageUrls)
  /\ imageFiles' = <<>>
  /\ imageUrls' = <<>>
  /\ payouts' = Null
  /\ hrcJson' = Null
  /\ error' = Null
  /\ isLoading' = FALSE
  /\ extracted' = Null
  /\ resultFiles' = Null
  /\ lastEvent' = "reset"
  /\ pending' = EmptyBag
  /\ UNCHANGED nextId

\* handleReset without the revokeObjectURL loop.
handleResetLeaking ==
  /\ imageFiles' = <<>>
  /\ imageUrls' = <<>>
  /\ payouts' = Null
  /\ hrcJson' = Null
  /\ error' = Null
  /\ isLoading' = FALSE
  /\ extracted' = Null
  /\ resultFiles' = Null
  /\ lastEvent' = "reset"
  /\ UNCHANGED <<liveUrls, pending, nextId>>

handleReset ==
  /\ liveUrls' = liveUrls \ Range(imageUrls)
  /\ imageFiles' = <<>>
  /\ imageUrls' = <<>>
  /\ payouts' = Null
  /\ hrcJson' = Null
  /\ error' = Null
  /\ isLoading' = FALSE
  /\ extracted' = Null
  /\ resultFiles' = Null
  /\ lastEvent' = "reset"
  /\ UNCHANGED <<pending, nextId>>

\* The blob's object URL is created and revoked inside the handler.
handleDownloadJson ==
  /\ hrcJson # Null
  /\ UNCHANGED vars

----------------------------------------------------------------------------
\* What the rendered page offers: the two buttons exist only while the batch
\* is non-empty, the generate button is disabled while loading, and the
\* download button exists only with both results present.

ClickReset == Len(imageFiles) > 0 /\ handleReset
ClickGenerate == Len(imageFiles) > 0 /\ ~isLoading /\ handleGenerateJson
ClickDownload == payouts # Null /\ handleDownloadJson

Next ==
  \/ handleFileChange
  \/ onDrop
  \/ handlePaste
  \/ ClickGenerate
  \/ ClickReset
  \/ ClickDownload
  \/ GatewaySuccess
  \/ GatewayFailure

Spec == Init /\ [][Next]_vars

\* The handlers invoked in any state, as a caller of the handlers can.
CallReset == handleReset
CallGenerate == handleGenerateJson

NextHandlers ==
  \/ handleFileChange
  \/ onDrop
  \/ handlePaste
  \/ CallGenerate
  \/ CallReset
  \/ ClickDownload
  \/ GatewaySuccess
  \/ GatewayFailure

SpecHandlers == Init /\ [][NextHandlers]_vars

----------------------------------------------------------------------------
\* Vocabulary of the properties.

Count(e, s) == Cardinality({i \in DOMAIN s : s[i] = e})
SameEntries(s, t) ==
  /\ Len(s) = Len(t)
  /\ \A e \in Range(s) \cup Range(t) : Count(e, s) = Count(e, t)
UniquePositions(s) ==
  \A i, j \in DOMAIN s : i # j => s[i].position # s[j].position
StrictlyAscending(s) ==
  \A i \in 1..(Len(s) - 1) : s[i].position < s[i + 1].position
AllNumeric(s) == \A i \in DOMAIN s : s[i].prize # NoPrize

Digits == {"0", "1", "2", "3", "4", "5", "6", "7", "8", "9"}
DigitValue(c) == CHOOSE d \in 0..9 : DigitChar(d) = c
RECURSIVE Value(_)
Value(str) ==
  IF str = <<>> THEN 0
  ELSE 10 * Value(SubSeq(str, 1, Len(str) - 1)) + DigitValue(str[Len(str)])

\* str is the decimal numeral of n: digits only, no leading zero.
IsDecimalOf(str, n) ==
  /\ Len(str) >= 1
  /\ \A i \in DOMAIN str : str[i] \in Digits
  /\ Len(str) > 1 => str[1] # "0"
  /\ Value(str) = n

\* str is m thousandths rendered to the nearest hundredth: an integer part,
\* a point and exactly two digits.
IsTwoPlacesOf(str, m) ==
  /\ Len(str) >= 4
  /\ str[Len(str) - 2] = "."
  /\ LET whole == SubSeq(str, 1, Len(str) - 3)
         frac == SubSeq(str, Len(str) - 1, Len(str))
     IN  /\ \A i \in DOMAIN whole : whole[i] \in Digits
         /\ Len(whole) > 1 => whole[1] # "0"
         /\ \A i \in DOMAIN frac : frac[i] \in Digits
         /\ LET cents == 100 * Value(whole) + Value(frac)
            IN  10 * cents - m <= 5 /\ m - 10 * cents <= 5

ExampleResponse ==
  << [position |-> 2, prize |-> 50000], [position |-> 1, prize |-> 100500] >>
ExampleEntries ==
  << [k \in {"@position", "@prize"} |->
        IF k = "@position" THEN <<"1">> ELSE <<"1", "0", "0", ".", "5", "0">>],
     [k \in {"@position", "@prize"} |->
        IF k = "@position" THEN <<"2">> ELSE <<"5", "0", ".", "0", "0">>] >>

Outstanding == BagCardinality(pending)

----------------------------------------------------------------------------
\* C1: whenever a payout list is held and the response it was made from has
\* unique positions, the list has the response's length, holds exactly the
\* response's entries (as a multiset) and is strictly ascending by position.
C1_SortNormalizes ==
  (payouts # Null /\ extracted # Null /\ UniquePositions(extracted[1])) =>
     /\ Len(payouts[1]) = Len(extracted[1])
     /\ SameEntries(payouts[1], extracted[1])
     /\ StrictlyAscending(payouts[1])

C1_Witness ==
  /\ payouts # Null
  /\ extracted # Null
  /\ Len(extracted[1]) = 2
  /\ UniquePositions(extracted[1])
  /\ extracted[1][1].position > extracted[1][2].position

\* C2: right after a gateway response whose prizes are all numbers, the
\* export document holds one record per held payout entry, in order; the
\* i-th "@position" is the decimal numeral of the i-th position and the i-th
\* "@prize" is the i-th prize with exactly two digits after the point; the
\* response [{2, 50}, {1, 100.5}] gives [{"1","100.50"}, {"2","50.00"}].
C2_ExportRecords ==
  (lastEvent = "resolve" /\ AllNumeric(payouts[1])) =>
     /\ hrcJson # Null
     /\ LET records == hrcJson[1].CompletedTournament.TournamentEntry
        IN  /\ Len(records) = Len(payouts[1])
            /\ \A i \in 1..Len(payouts[1]) :
                 /\ IsDecimalOf(records[i]["@position"], payouts[1][i].position)
                 /\ IsTwoPlacesOf(records[i]["@prize"], payouts[1][i].prize)
            /\ extracted = Some(ExampleResponse) => records = ExampleEntries

C2_Witness ==
  /\ lastEvent = "resolve"
  /\ extracted = Some(ExampleResponse)
  /\ hrcJson # Null
  /\ hrcJson[1].CompletedTournament.TournamentEntry = ExampleEntries

\* C3: whenever an export document is held, a payout list is held too and
\* the document is the export of that list.
C3_ExportOfHeldPayouts ==
  hrcJson # Null =>
     /\ payouts # Null
     /\ AllNumeric(payouts[1])
     /\ hrcJson = Some(hrcJsonData(payouts[1]))

\* C4: an error message is never held together with a payout list or an
\* export document.
C4_NoErrorBesideResults ==
  error # Null => (payouts = Null /\ hrcJson = Null)

\* C5: after a gateway response holding two entries with the same position,
\* an error message is held and neither a payout list nor an export document.
C5_DuplicatePositionsRejected ==
  (extracted # Null /\ ~UniquePositions(extracted[1])) =>
     (error # Null /\ payouts = Null /\ hrcJson = Null)

\* C6: at most one gateway call is outstanding at any time.
C6_AtMostOneOutstanding == Outstanding <= 1

\* C7: a reset, in any state, empties the image batch and the previews,
\* clears the payout list, the export document and the error message, lowers
\* the loading flag, and leaves the outstanding gateway calls as they were.
C7_ResetDiscardsSessionOnly ==
  [][lastEvent' = "reset" =>
       /\ imageFiles' = <<>>
       /\ imageUrls' = <<>>
       /\ payouts' = Null
       /\ hrcJson' = Null
       /\ error' = Null
       /\ isLoading' = FALSE
       /\ pending' = pending]_vars

C7_Witness ==
  /\ lastEvent = "reset"
  /\ Outstanding > 0
  /\ ENABLED GatewaySuccess

\* C8: the object URLs created and not revoked are exactly the previews
\* displayed.
C8_LiveUrlsAreDisplayed == liveUrls = Range(imageUrls)

C8_Witness ==
  /\ imageUrls # <<>>
  /\ imageUrls[1] > 1
  /\ liveUrls = Range(imageUrls)

\* C9: a generate action taken with an empty image batch sets the error
\* message and changes nothing else: no gateway call, no loading flag, the
\* batch, the payout list and the export document as they were.
C9_EmptyBatchOnlyReportsError ==
  [][(lastEvent' = "generate" /\ Len(imageFiles) = 0) =>
       /\ error' = Some(NoImagesMessage)
       /\ pending' = pending
       /\ isLoading' = isLoading
       /\ imageFiles' = imageFiles
       /\ imageUrls' = imageUrls
       /\ payouts' = payouts
       /\ hrcJson' = hrcJson]_vars

C9_Witness ==
  /\ lastEvent = "generate"
  /\ Len(imageFiles) = 0
  /\ error = Some(NoImagesMessage)
  /\ payouts # Null

\* C10: a payout list or export document that is held was produced by a run
\* started from the image batch as it is now.
C10_ResultsOfCurrentBatch ==
  (payouts # Null \/ hrcJson # Null) => resultFiles = Some(imageFiles)

====
